---- MODULE Spec2Model ----
(***************************************************************************)
(* Model of py_deque_benchmark: TrimList (a deque plus a pop counter),     *)
(* ChunkList (a 3-level tree of 128-slot chunks with a chunk pool) and     *)
(* ChunkListAdapter (a virtual trim point on top of a ChunkList).          *)
(*                                                                         *)
(* Objects are records; a method is an operator from the object (and its   *)
(* arguments) to the outcome [self, ret, exc]: the object after the call,  *)
(* the returned value, and the name of the exception raised ("" if none).  *)
(* Python's None is the integer None, which no item equals.                *)
(*                                                                         *)
(* A run drives one freshly constructed object (subject) with any sequence *)
(* of calls; the objects share no state, so runs need not interleave them. *)
(* The history variables record what was passed to and returned by the     *)
(* calls; the program does not read them.                                  *)
(***************************************************************************)
EXTENDS Integers, Sequences, FiniteSets, TLC

VARIABLES
    subject,      \* which object this run drives
    tl,           \* the TrimList
    cl,           \* the ChunkList (the adapter's _impl)
    trimmed,      \* the adapter's _trimmed
    tl_appended,  \* history: the values given to tl.append, in call order
    tl_indices,   \* history: the indices tl.append returned, in call order
    tl_removed,   \* history: how many elements left tl's deque
    cl_appended,  \* history: the values given to cl.append, in call order
    cl_indices,   \* history: the indices cl.append returned, in call order
    cl_written,   \* history: index -> the item of the latest write(s) there
    cl_overflow,  \* history: some write had an index outside [0, 128^3)
    cl_puts,      \* history: the number of cl.put calls
    cl_reclaims,  \* history: the number of cl._pool_reclaim calls
    bm,           \* the TrimmableListBenchmarkBase object
    rp,           \* the benchmark run: its position, and randomized_populate's locals
    trims,        \* history: the trim_before calls of randomized_populate
    last          \* the latest call and its outcome

tlvars == <<tl, tl_appended, tl_indices, tl_removed>>
clvars == <<cl, cl_appended, cl_indices, cl_written, cl_overflow, cl_puts, cl_reclaims>>
hvars == <<bm, rp, trims>>
vars == <<subject, tlvars, clvars, trimmed, hvars, last>>

\* ------------------------------------------------------------------ bounds

\* Number of append calls made on one object.
MaxAppends == 3

\* Number of put calls made on the ChunkList.
MaxPuts == 2

\* Number of _pool_reclaim calls made on the ChunkList.
MaxReclaims == 3

\* Number of items the benchmark adds: test_block_size * blocks_to_add.
MaxItems == 4

\* Number of distinct items.
NumValues == 2

\* The items that are appended or put.
Values == 1..NumValues

\* Arguments of trim_before: below 0, inside the window, above stop.
TrimArgs == (0 - 1)..(MaxAppends + 1)

\* Indices that are read: below -len, inside the window, above stop.
ProbeIdx == (0 - MaxAppends - 1)..(MaxAppends + 1)

\* ----------------------------------------------------------------- helpers

\* Python's None.
None == -1

\* Python's max(a, b).
max(a, b) == IF a >= b THEN a ELSE b

\* Python's min(a, b).
min(a, b) == IF a <= b THEN a ELSE b

\* The outcome of a call that returns.
Return(self, ret) == [self |-> self, ret |-> ret, exc |-> ""]

\* The outcome of a call that raises: the object as the raise leaves it.
Raise(self, exc) == [self |-> self, ret |-> None, exc |-> exc]

\* ---------------------------------------------------------------- TrimList

\* TrimList.__init__: an empty deque and a pop count of 0.
TrimList_init == [data |-> <<>>, pop_count |-> 0]

\* Mutant of TrimList.__len__: the length of the window.
TrimList_len_window(self) == Len(self.data)

\* TrimList.__len__
TrimList_len(self) == self.pop_count + Len(self.data)

\* TrimList.indexrange: range(start, start + cur_len).
TrimList_indexrange(self) ==
    LET start == self.pop_count
        cur_len == Len(self.data)
    IN  [start |-> start, stop |-> start + cur_len]

\* deque.__getitem__(i): positions -len..-1 count from the right end,
\* anything outside -len..len-1 raises IndexError.
deque_getitem(data, i) ==
    LET n == Len(data)
    IN  IF 0 <= i /\ i < n THEN [ret |-> data[i + 1], exc |-> ""]
        ELSE IF (0 - n) <= i /\ i < 0 THEN [ret |-> data[n + i + 1], exc |-> ""]
        ELSE [ret |-> None, exc |-> "IndexError"]

\* Mutant of TrimList.__getitem__: the index is not translated.
TrimList_getitem_untranslated(self, idx) == deque_getitem(self.data, idx)

\* TrimList.__getitem__ with an int: self._data[_slice - self._pop_count].
TrimList_getitem(self, idx) == deque_getitem(self.data, idx - self.pop_count)

\* Mutant of TrimList.append: returns the position in the deque.
TrimList_append_no_offset(self, value) ==
    LET idx == Len(self.data)
    IN  Return([self EXCEPT !.data = Append(self.data, value)], idx)

\* TrimList.append
TrimList_append(self, value) ==
    LET idx == Len(self.data)
    IN  Return([self EXCEPT !.data = Append(self.data, value)],
               idx + self.pop_count)

\* Mutant of TrimList.pop_left: pop() instead of popleft().
TrimList_pop_left_from_right(self) ==
    IF Len(self.data) = 0
    THEN Return(self, None)
    ELSE Return([data |-> SubSeq(self.data, 1, Len(self.data) - 1),
                 pop_count |-> self.pop_count + 1],
                self.data[Len(self.data)])

\* Mutant of TrimList.pop_left: the pop is not counted.
TrimList_pop_left_uncounted(self) ==
    IF Len(self.data) = 0
    THEN Return(self, None)
    ELSE Return([self EXCEPT !.data = Tail(self.data)], Head(self.data))

\* TrimList.pop_left
TrimList_pop_left(self) ==
    IF Len(self.data) = 0
    THEN Return(self, None)
    ELSE Return([data |-> Tail(self.data), pop_count |-> self.pop_count + 1],
                Head(self.data))

\* Mutant of trim_count: the target length ignores the pop count.
TrimList_trim_count_no_offset(cur_len, pop_count, idx) ==
    LET target_len == max(0, cur_len - idx)
    IN  max(0, cur_len - target_len)

\* trim_count of TrimList.trim_before.
TrimList_trim_count(cur_len, pop_count, idx) ==
    LET target_len == max(0, cur_len + pop_count - idx)
    IN  max(0, cur_len - target_len)

\* The loop of TrimList.trim_before: n times popleft() appended to
\* trimmed_values; popleft() on an empty deque raises IndexError.
RECURSIVE TrimList_trim_loop(_, _, _)
TrimList_trim_loop(data, n, trimmed_values) ==
    IF n = 0 THEN [data |-> data, trimmed_values |-> trimmed_values, exc |-> ""]
    ELSE IF data = <<>>
    THEN [data |-> data, trimmed_values |-> trimmed_values, exc |-> "IndexError"]
    ELSE TrimList_trim_loop(Tail(data), n - 1, Append(trimmed_values, Head(data)))

\* TrimList.trim_before
TrimList_trim_before(self, idx) ==
    LET cur_len == Len(self.data)
        trim_count == TrimList_trim_count(cur_len, self.pop_count, idx)
        loop == TrimList_trim_loop(self.data, trim_count, <<>>)
    IN  IF loop.exc # ""
        THEN Raise([self EXCEPT !.data = loop.data], loop.exc)
        ELSE Return([data |-> loop.data, pop_count |-> self.pop_count + trim_count],
                    loop.trimmed_values)

\* --------------------------------------------------------------- ChunkList
\* A chunk is a Python list of 128 slots, an object with an identity: the
\* ChunkList's heap is the sequence of the chunks it has allocated, and a
\* reference to a chunk is its position in the heap. A slot holds None, an
\* item (level 3) or a reference to the next-level chunk (levels 1 and 2).

ChunkList_BITS == 7

ChunkList_MASK == 127

ChunkList_CHUNKSIZE == 128

ChunkList_LEVELS == 3

\* The number of indices the 3 levels address: 128^3.
Capacity == ChunkList_CHUNKSIZE ^ ChunkList_LEVELS

\* Indices given to put: inside or above the appended range, the first slot
\* of a second level-3 chunk, the last index of the capacity (a second
\* level-2 chunk), and the first index beyond the capacity.
PutIdx == {1, ChunkList_CHUNKSIZE, Capacity - 1, Capacity}

\* Every index that is written, by append or by put.
WriteIdx == (0..(MaxAppends - 1)) \cup PutIdx

\* Python's x & mask on an int of any sign, for a mask of the form 2^k - 1.
BitAnd(x, mask) == x % (mask + 1)

\* Python's x >> bits on an int of any sign (rounds towards minus infinity).
ShiftRight(x, bits) == x \div (2 ^ bits)

\* ChunkList._pool_getnew: [None] * 128, a new object.
ChunkList_pool_getnew(self) ==
    Return([self EXCEPT !.heap = Append(self.heap,
                                         [k \in 0..(ChunkList_CHUNKSIZE - 1) |-> None])],
           Len(self.heap) + 1)

\* ChunkList.__init__
ChunkList_init ==
    LET new == ChunkList_pool_getnew([heap |-> <<>>])
    IN  [heap |-> new.self.heap, data |-> new.ret, pool |-> <<>>,
         start |-> 0, stop |-> 0]

\* ChunkList._pool_get: the last chunk of the pool, popped and asserted to
\* be a list (every object of the heap is one) of 128 slots, or a new one.
\* A failed assert leaves the pool without the popped list.
ChunkList_pool_get(self) ==
    IF Len(self.pool) > 0
    THEN LET obj == self.pool[Len(self.pool)]
             popped == [self EXCEPT !.pool = SubSeq(self.pool, 1, Len(self.pool) - 1)]
         IN  IF DOMAIN self.heap[obj] # 0..(ChunkList_CHUNKSIZE - 1)
             THEN Raise(popped, "AssertionError")
             ELSE Return(popped, obj)
    ELSE ChunkList_pool_getnew(self)

\* Mutant of ChunkList._pool_reclaim: the slots are not reset.
ChunkList_pool_reclaim_uncleared(self, obj) ==
    IF DOMAIN self.heap[obj] # 0..(ChunkList_CHUNKSIZE - 1)
    THEN Raise(self, "AssertionError")
    ELSE Return([self EXCEPT !.pool = Append(self.pool, obj)], None)

\* ChunkList._pool_reclaim of the list at obj: asserts its length, sets
\* every slot to None and appends it to the pool (_pool is never None).
ChunkList_pool_reclaim(self, obj) ==
    IF DOMAIN self.heap[obj] # 0..(ChunkList_CHUNKSIZE - 1)
    THEN Raise(self, "AssertionError")
    ELSE Return([self EXCEPT
                     !.heap[obj] = [idx \in 0..(ChunkList_CHUNKSIZE - 1) |-> None],
                     !.pool = Append(self.pool, obj)],
                None)

\* ChunkList._decompose: (remainder, idx1, idx2, idx3) as a record.
ChunkList_decompose(idx) ==
    LET bits == ChunkList_BITS
        mask == ChunkList_MASK
        idx3 == BitAnd(idx, mask)
        r3 == ShiftRight(idx, bits)
        idx2 == BitAnd(r3, mask)
        r2 == ShiftRight(r3, bits)
        idx1 == BitAnd(r2, mask)
        r1 == ShiftRight(r2, bits)
    IN  [rem |-> r1, k1 |-> idx1, k2 |-> idx2, k3 |-> idx3]

\* ChunkList._compose: key is a tuple of 4, as its asserts require (a record
\* of _decompose's four fields here).
ChunkList_compose(key) ==
    LET c == ChunkList_CHUNKSIZE
    IN  ((key.rem * c + key.k1) * c + key.k2) * c + key.k3

\* "if chunk[key] is None: chunk[key] = self._pool_get()" of ChunkList.put,
\* given what _pool_get did: the chunk it returned is linked at chunk[key],
\* unless it raised.
ChunkList_put_link(got, chunk, key) ==
    IF got.exc # "" THEN Raise(got.self, got.exc)
    ELSE Return([got.self EXCEPT !.heap[chunk][key] = got.ret], got.ret)

\* "if chunk[key] is None: chunk[key] = self._pool_get()" of ChunkList.put,
\* and the read of chunk[key] that follows it.
ChunkList_put_chunk(self, chunk, key) ==
    IF self.heap[chunk][key] = None
    THEN ChunkList_put_link(ChunkList_pool_get(self), chunk, key)
    ELSE Return(self, self.heap[chunk][key])

\* The last line of ChunkList.put, self._data[k1][k2][k3] = item, given the
\* level-3 chunk: not reached when a _pool_get raised.
ChunkList_put_item(got, key, item) ==
    IF got.exc # "" THEN Raise(got.self, got.exc)
    ELSE Return([got.self EXCEPT !.heap[got.ret][key] = item], None)

\* The second if of ChunkList.put and its last line, given the level-2
\* chunk: not reached when the first _pool_get raised.
ChunkList_put_level2(got, key2, key3, item) ==
    IF got.exc # "" THEN Raise(got.self, got.exc)
    ELSE ChunkList_put_item(ChunkList_put_chunk(got.self, got.ret, key2), key3, item)

\* Mutant of ChunkList.put: a write at or above stop extends the window.
ChunkList_put_extends(self, idx, item) ==
    LET k == ChunkList_decompose(idx)
        out == ChunkList_put_level2(ChunkList_put_chunk(self, self.data, k.k1),
                                    k.k2, k.k3, item)
    IN  IF out.exc # "" THEN Raise(out.self, out.exc)
        ELSE Return([out.self EXCEPT !.stop = IF idx >= self.stop THEN idx + 1
                                              ELSE self.stop],
                    None)

\* ChunkList.put: an AssertionError of _pool_get leaves the method before
\* the chunk is linked and the item written.
ChunkList_put(self, idx, item) ==
    LET k == ChunkList_decompose(idx)
    IN  ChunkList_put_level2(ChunkList_put_chunk(self, self.data, k.k1),
                             k.k2, k.k3, item)

\* ChunkList.append: _stop is advanced before put is called.
ChunkList_append(self, item) ==
    LET idx == self.stop
        out == ChunkList_put([self EXCEPT !.stop = self.stop + 1], idx, item)
    IN  IF out.exc # "" THEN Raise(out.self, out.exc)
        ELSE Return(out.self, idx)

\* Mutant of ChunkList.get: the level-3 chunk is read at k2.
ChunkList_get_wrong_key(self, idx) ==
    IF ~(self.start <= idx /\ idx < self.stop)
    THEN None
    ELSE LET k == ChunkList_decompose(idx)
             c2 == self.heap[self.data][k.k1]
         IN  IF c2 = None THEN None
             ELSE LET c3 == self.heap[c2][k.k2]
                  IN  IF c3 = None THEN None
                      ELSE self.heap[c3][k.k2]

\* ChunkList.get
ChunkList_get(self, idx) ==
    IF ~(self.start <= idx /\ idx < self.stop)
    THEN None
    ELSE LET k == ChunkList_decompose(idx)
             c2 == self.heap[self.data][k.k1]
         IN  IF c2 = None THEN None
             ELSE LET c3 == self.heap[c2][k.k2]
                  IN  IF c3 = None THEN None
                      ELSE self.heap[c3][k.k3]

\* ChunkList.keyrange
ChunkList_keyrange(self) == [start |-> self.start, stop |-> self.stop]

\* A selector of enumerate is None, a range, a slice, a list of ints, or
\* something that is not iterable (an int). The start, stop and step of a
\* range or a slice are <<n>> for the int n and <<>> for None.
NoSelector == [kind |-> "None"]
RangeSel(start, stop, step) ==
    [kind |-> "range", start |-> <<start>>, stop |-> <<stop>>, step |-> <<step>>]
SliceSel(start, stop, step) ==
    [kind |-> "slice", start |-> start, stop |-> stop, step |-> step]
ListSel(items) == [kind |-> "list", items |-> items]
IntSel(n) == [kind |-> "int", value |-> n]

\* list(range(start, stop, step)) for a step other than 0.
RECURSIVE range_items(_, _, _)
range_items(start, stop, step) ==
    IF (step > 0 /\ start >= stop) \/ (step < 0 /\ start <= stop)
    THEN <<>>
    ELSE <<start>> \o range_items(start + step, stop, step)

\* The loops of ChunkList.enumerate: (idx, self.get(idx)) for the idx of
\* items; the loop over an iterable skips (filtered) the idx outside
\* the window.
RECURSIVE ChunkList_enumerate_loop(_, _, _)
ChunkList_enumerate_loop(self, items, filtered) ==
    IF items = <<>> THEN <<>>
    ELSE (IF ~filtered \/ (self.start <= Head(items) /\ Head(items) < self.stop)
          THEN << <<Head(items), ChunkList_get(self, Head(items))>> >>
          ELSE <<>>)
         \o ChunkList_enumerate_loop(self, Tail(items), filtered)

\* The bounds ChunkList.enumerate computes for a slice or range of step 1
\* or None: a None bound is the window's, a negative bound has stop added,
\* and both are clipped to the window.
ChunkList_enumerate_bounds(self, sel) ==
    LET start0 == IF sel.start = <<>> THEN self.start
                  ELSE IF sel.start[1] < 0 THEN sel.start[1] + self.stop
                  ELSE sel.start[1]
        stop0 == IF sel.stop = <<>> THEN self.stop
                 ELSE IF sel.stop[1] < 0 THEN sel.stop[1] + self.stop
                 ELSE sel.stop[1]
    IN  [start |-> max(start0, self.start), stop |-> min(stop0, self.stop)]

\* ChunkList.enumerate, as the list of the pairs it yields and the
\* exception that ends it.
ChunkList_enumerate(self, selector) ==
    LET kr == ChunkList_keyrange(self)
        sel == IF selector.kind = "None" THEN RangeSel(kr.start, kr.stop, 1)
               ELSE selector
    IN  IF sel.kind \in {"slice", "range"} /\ sel.step \in {<<>>, <<1>>}
        THEN LET b == ChunkList_enumerate_bounds(self, sel)
             IN  IF ~(b.start < b.stop)
                 THEN [ret |-> <<>>, exc |-> ""]
                 ELSE [ret |-> ChunkList_enumerate_loop(
                                   self, range_items(b.start, b.stop, 1), FALSE),
                       exc |-> ""]
        ELSE IF sel.kind = "slice" /\ (sel.start = <<>> \/ sel.stop = <<>>)
        THEN \* range(None, ...) raises TypeError
             [ret |-> <<>>, exc |-> "TypeError"]
        ELSE IF sel.kind \in {"slice", "range"} /\ sel.step = <<0>>
        THEN \* range(a, b, 0) raises ValueError (a range never has step 0)
             [ret |-> <<>>, exc |-> "ValueError"]
        ELSE IF sel.kind \in {"slice", "range"}
        THEN [ret |-> ChunkList_enumerate_loop(
                          self, range_items(sel.start[1], sel.stop[1], sel.step[1]),
                          TRUE),
              exc |-> ""]
        ELSE IF sel.kind = "list"
        THEN [ret |-> ChunkList_enumerate_loop(self, sel.items, TRUE),
              exc |-> ""]
        ELSE [ret |-> <<>>, exc |-> "Exception"]

\* -------------------------------------------------------- ChunkListAdapter
\* The adapter is the record [impl, trimmed]: its ChunkList and its
\* virtual trim point.

\* ChunkListAdapter.__init__
ChunkListAdapter_init == [impl |-> ChunkList_init, trimmed |-> 0]

\* ChunkListAdapter.append: calls _impl.append and returns nothing.
ChunkListAdapter_append(self, value) ==
    LET out == ChunkList_append(self.impl, value)
    IN  IF out.exc # "" THEN Raise([self EXCEPT !.impl = out.self], out.exc)
        ELSE Return([self EXCEPT !.impl = out.self], None)

\* Mutant of ChunkListAdapter.trim_before: the trim point follows idx.
ChunkListAdapter_trim_before_no_max(self, idx) ==
    Return([self EXCEPT !.trimmed = idx], None)

\* ChunkListAdapter.trim_before
ChunkListAdapter_trim_before(self, idx) ==
    Return([self EXCEPT !.trimmed = max(self.trimmed, idx)], None)

\* ChunkListAdapter.indexrange: range(self._trimmed, kr.stop).
ChunkListAdapter_indexrange(self) ==
    LET kr == ChunkList_keyrange(self.impl)
    IN  [start |-> self.trimmed, stop |-> kr.stop]

\* Mutant of ChunkListAdapter.__getitem__: the trim point is not checked.
ChunkListAdapter_getitem_unchecked(self, idx) == ChunkList_get(self.impl, idx)

\* ChunkListAdapter.__getitem__
ChunkListAdapter_getitem(self, idx) ==
    IF idx < self.trimmed THEN None ELSE ChunkList_get(self.impl, idx)

\* Mutant of ChunkListAdapter.__len__: the length of the window.
ChunkListAdapter_len_window(self) ==
    LET kr == ChunkList_keyrange(self.impl)
    IN  kr.stop - self.trimmed

\* ChunkListAdapter.__len__
ChunkListAdapter_len(self) ==
    LET kr == ChunkList_keyrange(self.impl)
    IN  kr.stop

\* ------------------------------------------------ TrimmableListBenchmarkBase
\* The benchmark calls its test subject through the TrimmableList protocol:
\* kind names the class of the object self.

TrimmableList_append(kind, self, value) ==
    IF kind = "TrimList" THEN TrimList_append(self, value)
    ELSE ChunkListAdapter_append(self, value)

TrimmableList_trim_before(kind, self, idx) ==
    IF kind = "TrimList" THEN TrimList_trim_before(self, idx)
    ELSE ChunkListAdapter_trim_before(self, idx)

TrimmableList_indexrange(kind, self) ==
    IF kind = "TrimList" THEN TrimList_indexrange(self)
    ELSE ChunkListAdapter_indexrange(self)

TrimmableList_getitem(kind, self, idx) ==
    IF kind = "TrimList" THEN TrimList_getitem(self, idx)
    ELSE [ret |-> ChunkListAdapter_getitem(self, idx), exc |-> ""]

TrimmableList_len(kind, self) ==
    IF kind = "TrimList" THEN TrimList_len(self)
    ELSE ChunkListAdapter_len(self)

\* What test_data_func returns: hash((idx,)) is a 64-bit integer, for which
\* the model takes either of two items.
HashValues == {1, 2}

\* _init_test_data: one item per index below items_to_add.
TestData(items_to_add) == [0..(items_to_add - 1) -> HashValues]

\* TrimmableListBenchmarkBase.__init__ with arguments that pass its asserts
\* (test_block_size > 0, 0 < blocks_to_remove < blocks_to_add); prob_add and
\* prob_remove, asserted within [0.01, 0.99], make every draw able to succeed
\* and to fail.
Benchmarks ==
    UNION {
        {[test_block_size |-> bs, blocks_to_add |-> ba, blocks_to_remove |-> br,
          test_data |-> td] : td \in TestData(bs * ba)} :
        <<bs, ba, br>> \in {args \in (1..MaxItems) \X (1..MaxItems) \X (1..MaxItems) :
                              /\ args[1] > 0
                              /\ 0 < args[3] /\ args[3] < args[2]
                              /\ args[1] * args[2] <= MaxItems}}

\* Mutant of the removal condition: without removed_count < added_count.
randomized_populate_removes_unchecked(frame, draw) ==
    frame.can_remove /\ draw

\* randomized_populate's condition for a removal:
\* can_remove and (removed_count < added_count) and (random_fn() < pr).
randomized_populate_removes(frame, draw) ==
    frame.can_remove /\ (frame.removed_count < frame.added_count) /\ draw

\* The first if of the while loop's body on the test subject self,
\* add_draw being the outcome of random_fn() < pa: the subject and the
\* locals after it. added_count += 1 and can_add follow the append, so an
\* append that raises leaves them.
randomized_populate_add(benchmark, kind, self, frame, add_draw) ==
    LET items_to_add == benchmark.test_block_size * benchmark.blocks_to_add
    IN  IF ~(frame.can_add /\ add_draw)
        THEN [self |-> self, frame |-> frame, exc |-> ""]
        ELSE LET out == TrimmableList_append(kind, self,
                                             benchmark.test_data[frame.added_count])
             IN  [self |-> out.self,
                  frame |-> IF out.exc # "" THEN [frame EXCEPT !.pc = out.exc]
                            ELSE [frame EXCEPT
                                      !.added_count = frame.added_count + 1,
                                      !.can_add = (frame.added_count + 1 < items_to_add)],
                  exc |-> out.exc]

\* The second if of the while loop's body, remove_draw being the outcome of
\* random_fn() < pr: the subject and the locals after it, and its
\* trim_before call with the added_count it was made at. removed_count += 1
\* precedes trim_before and can_remove follows it.
randomized_populate_remove(benchmark, kind, self, frame, remove_draw) ==
    LET items_to_remove == benchmark.test_block_size * benchmark.blocks_to_remove
        idx == frame.removed_count + 1
    IN  IF ~randomized_populate_removes(frame, remove_draw)
        THEN [self |-> self, frame |-> frame, trimmed |-> <<>>]
        ELSE LET out == TrimmableList_trim_before(kind, self, idx)
             IN  [self |-> out.self,
                  frame |-> IF out.exc # ""
                            THEN [frame EXCEPT !.removed_count = idx, !.pc = out.exc]
                            ELSE [frame EXCEPT !.removed_count = idx,
                                               !.can_remove = (idx < items_to_remove)],
                  trimmed |-> <<[idx |-> idx, added_count |-> frame.added_count]>>]

\* One iteration of randomized_populate's while loop: the first if, and
\* unless its append raised the second if on what the first left.
randomized_populate_iteration(benchmark, kind, self, frame, add_draw, remove_draw) ==
    CHOOSE it \in {IF added.exc # ""
                   THEN [self |-> added.self, frame |-> added.frame, trimmed |-> <<>>]
                   ELSE randomized_populate_remove(benchmark, kind, added.self,
                                                   added.frame, remove_draw) :
                   added \in {randomized_populate_add(benchmark, kind, self, frame,
                                                      add_draw)}} : TRUE

\* The loop of sequential_verify over idx in range(idx, stop): the first
\* exception raised, "" if none.
RECURSIVE sequential_verify_loop(_, _, _, _, _)
sequential_verify_loop(benchmark, kind, self, idx, stop) ==
    IF idx >= stop THEN ""
    ELSE LET expected_value == benchmark.test_data[idx]
             actual == TrimmableList_getitem(kind, self, idx)
         IN  IF actual.exc # "" THEN actual.exc
             ELSE IF actual.ret # expected_value THEN "AssertionError"
             ELSE sequential_verify_loop(benchmark, kind, self, idx + 1, stop)

\* sequential_verify: the exception it raises, "" if it returns.
sequential_verify(benchmark, kind, self) ==
    LET expect_items_added == benchmark.test_block_size * benchmark.blocks_to_add
        expect_items_removed == benchmark.test_block_size * benchmark.blocks_to_remove
        initial_indexrange == TrimmableList_indexrange(kind, self)
    IN  IF TrimmableList_len(kind, self) # expect_items_added THEN "AssertionError"
        ELSE IF initial_indexrange.start # expect_items_removed THEN "AssertionError"
        ELSE IF initial_indexrange.stop # expect_items_added THEN "AssertionError"
        ELSE sequential_verify_loop(benchmark, kind, self,
                                    expect_items_removed, expect_items_added)

\* ------------------------------------------------------------------ actions

\* The record of the latest call: object, method, argument, outcome.
Call(obj, op, arg, out) ==
    [obj |-> obj, op |-> op, arg |-> arg, ret |-> out.ret, exc |-> out.exc]

\* tl.append(value)
TLAppend ==
    \E value \in Values :
        /\ subject = "TrimList"
        /\ Len(tl_appended) < MaxAppends
        /\ LET out == TrimList_append(tl, value)
           IN  /\ tl' = out.self
               /\ last' = Call("tl", "append", value, out)
               /\ tl_indices' = Append(tl_indices, out.ret)
        /\ tl_appended' = Append(tl_appended, value)
        /\ UNCHANGED <<subject, hvars, tl_removed, clvars, trimmed>>

\* tl.pop_left()
TLPopLeft ==
    /\ subject = "TrimList"
    /\ LET out == TrimList_pop_left(tl)
       IN  /\ tl' = out.self
           /\ last' = Call("tl", "pop_left", None, out)
           /\ tl_removed' = tl_removed + Len(tl.data) - Len(out.self.data)
    /\ UNCHANGED <<subject, hvars, tl_appended, tl_indices, clvars, trimmed>>

\* tl.trim_before(idx)
TLTrimBefore ==
    \E idx \in TrimArgs :
        /\ subject = "TrimList"
        /\ LET out == TrimList_trim_before(tl, idx)
           IN  /\ tl' = out.self
               /\ last' = Call("tl", "trim_before", idx, out)
               /\ tl_removed' = tl_removed + Len(tl.data) - Len(out.self.data)
        /\ UNCHANGED <<subject, hvars, tl_appended, tl_indices, clvars, trimmed>>

\* The adapter: the ChunkList cl with the trim point trimmed.
ad == [impl |-> cl, trimmed |-> trimmed]

\* The history of a call that is to write item at idx: nothing is written
\* when the call raised.
Written(out, idx, item) ==
    IF out.exc # "" THEN UNCHANGED <<cl_written, cl_overflow>>
    ELSE /\ cl_written' = [cl_written EXCEPT ![idx] = item]
         /\ cl_overflow' = (cl_overflow \/ idx < 0 \/ idx >= Capacity)

\* The lists a caller hands to _pool_reclaim: 128 slots of one item, 128
\* slots of which the first holds an item, and a list of 127 slots.
Buffers ==
    {[idx \in 0..(ChunkList_CHUNKSIZE - 1) |-> item] : item \in Values}
    \cup {[idx \in 0..(ChunkList_CHUNKSIZE - 1) |-> IF idx = 0 THEN 1 ELSE None],
          [idx \in 0..(ChunkList_CHUNKSIZE - 2) |-> 1]}

\* cl._pool_reclaim(obj), obj a list of the caller's that nothing else
\* refers to: the list becomes an object of the heap and is handed over.
CLPoolReclaim ==
    \E buffer \in Buffers :
        /\ subject = "ChunkListPool"
        /\ cl_reclaims < MaxReclaims
        /\ cl_reclaims' = cl_reclaims + 1
        /\ LET obj == Len(cl.heap) + 1
               out == ChunkList_pool_reclaim(
                          [cl EXCEPT !.heap = Append(cl.heap, buffer)], obj)
           IN  /\ cl' = IF out.exc = "" THEN out.self ELSE cl
               /\ last' = Call("cl", "_pool_reclaim", Cardinality(DOMAIN buffer), out)
        /\ UNCHANGED <<subject, hvars, cl_appended, cl_indices, cl_written, cl_overflow,
                       cl_puts, tlvars, trimmed>>

\* cl.append(item)
CLAppend ==
    \E item \in Values :
        /\ subject \in {"ChunkList", "ChunkListPool"}
        /\ Len(cl_appended) < MaxAppends
        /\ \E out \in {ChunkList_append(cl, item)} :
               /\ cl' = out.self
               /\ last' = Call("cl", "append", item, out)
               /\ cl_indices' = IF out.exc = "" THEN Append(cl_indices, out.ret)
                                 ELSE cl_indices
               /\ Written(out, out.ret, item)
        /\ cl_appended' = Append(cl_appended, item)
        /\ UNCHANGED <<subject, hvars, cl_puts, cl_reclaims, tlvars, trimmed>>

\* cl.put(idx, item)
CLPut ==
    \E idx \in PutIdx, item \in Values :
        /\ subject = "ChunkList"
        /\ cl_puts < MaxPuts
        /\ cl_puts' = cl_puts + 1
        /\ \E out \in {ChunkList_put(cl, idx, item)} :
               /\ cl' = out.self
               /\ last' = Call("cl", "put", <<idx, item>>, out)
               /\ Written(out, idx, item)
        /\ UNCHANGED <<subject, hvars, cl_appended, cl_indices, cl_reclaims, tlvars, trimmed>>

\* adapter.append(value)
AdAppend ==
    \E value \in Values :
        /\ subject = "ChunkListAdapter"
        /\ Len(cl_appended) < MaxAppends
        /\ \E out \in {ChunkListAdapter_append(ad, value)},
              impl \in {ChunkList_append(cl, value)} :
               /\ cl' = out.self.impl
               /\ trimmed' = out.self.trimmed
               /\ last' = Call("ad", "append", value, out)
               /\ cl_indices' = IF impl.exc = "" THEN Append(cl_indices, impl.ret)
                                 ELSE cl_indices
               /\ Written(impl, impl.ret, value)
        /\ cl_appended' = Append(cl_appended, value)
        /\ UNCHANGED <<subject, hvars, cl_puts, cl_reclaims, tlvars>>

\* adapter.trim_before(idx)
AdTrimBefore ==
    \E idx \in TrimArgs :
        /\ subject = "ChunkListAdapter"
        /\ LET out == ChunkListAdapter_trim_before(ad, idx)
           IN  /\ cl' = out.self.impl
               /\ trimmed' = out.self.trimmed
               /\ last' = Call("ad", "trim_before", idx, out)
        /\ UNCHANGED <<subject, hvars, cl_appended, cl_indices, cl_written, cl_overflow, cl_puts,
                       cl_reclaims, tlvars>>

\* The objects a run can drive: a TrimList, a ChunkList called directly, a
\* ChunkList whose pool is also given lists to reclaim, or a
\* ChunkListAdapter. Each run starts from a freshly constructed object.
Subjects == {"TrimList", "ChunkList", "ChunkListPool", "ChunkListAdapter"}

\* Freshly constructed objects and empty histories.
Fresh ==
    /\ tl = TrimList_init
    /\ cl = ChunkListAdapter_init.impl
    /\ trimmed = ChunkListAdapter_init.trimmed
    /\ tl_appended = <<>>
    /\ tl_indices = <<>>
    /\ tl_removed = 0
    /\ cl_appended = <<>>
    /\ cl_indices = <<>>
    /\ cl_written = [idx \in WriteIdx |-> None]
    /\ cl_overflow = FALSE
    /\ cl_puts = 0
    /\ cl_reclaims = 0
    /\ last = [obj |-> "", op |-> "init", arg |-> None, ret |-> None, exc |-> ""]

\* No benchmark is running: the objects are called directly.
NoBenchmark ==
    /\ bm = [test_block_size |-> 0, blocks_to_add |-> 0, blocks_to_remove |-> 0,
             test_data |-> <<>>]
    /\ rp = [pc |-> "", added_count |-> 0, removed_count |-> 0,
             can_add |-> FALSE, can_remove |-> FALSE]
    /\ trims = <<>>

Init ==
    /\ subject \in Subjects
    /\ Fresh
    /\ NoBenchmark

Next ==
    \/ TLAppend
    \/ TLPopLeft
    \/ TLTrimBefore
    \/ CLAppend
    \/ CLPut
    \/ CLPoolReclaim
    \/ AdAppend
    \/ AdTrimBefore

Spec == Init /\ [][Next]_vars

\* ------------------------------------------------- the two lists side by side
\* A TrimList and a ChunkListAdapter given the same calls, as a user of the
\* TrimmableList protocol gives them: append(v), and trim_before(k) with k
\* from 0 to the number of elements appended so far.

\* tl.append(value) and adapter.append(value)
PairAppend ==
    \E value \in Values :
        /\ subject = "Pair"
        /\ Len(tl_appended) < MaxAppends
        /\ LET out == TrimList_append(tl, value)
           IN  /\ tl' = out.self
               /\ last' = Call("pair", "append", value, out)
               /\ tl_indices' = Append(tl_indices, out.ret)
        /\ tl_appended' = Append(tl_appended, value)
        /\ \E out \in {ChunkListAdapter_append(ad, value)},
              impl \in {ChunkList_append(cl, value)} :
               /\ cl' = out.self.impl
               /\ trimmed' = out.self.trimmed
               /\ cl_indices' = IF impl.exc = "" THEN Append(cl_indices, impl.ret)
                                 ELSE cl_indices
               /\ Written(impl, impl.ret, value)
        /\ cl_appended' = Append(cl_appended, value)
        /\ UNCHANGED <<subject, hvars, tl_removed, cl_puts, cl_reclaims>>

\* tl.trim_before(idx) and adapter.trim_before(idx)
PairTrimBefore ==
    \E idx \in 0..Len(tl_appended) :
        /\ subject = "Pair"
        /\ LET out == TrimList_trim_before(tl, idx)
           IN  /\ tl' = out.self
               /\ last' = Call("pair", "trim_before", idx, out)
               /\ tl_removed' = tl_removed + Len(tl.data) - Len(out.self.data)
        /\ LET out == ChunkListAdapter_trim_before(ad, idx)
           IN  /\ cl' = out.self.impl
               /\ trimmed' = out.self.trimmed
        /\ UNCHANGED <<subject, hvars, tl_appended, tl_indices, cl_appended, cl_indices,
                       cl_written, cl_overflow, cl_puts, cl_reclaims>>

InitPair ==
    /\ subject = "Pair"
    /\ Fresh
    /\ NoBenchmark

NextPair ==
    \/ PairAppend
    \/ PairTrimBefore

SpecPair == InitPair /\ [][NextPair]_vars

\* ------------------------------------------------------------ the benchmark
\* main runs, for a TrimList and for a ChunkListAdapter, randomized_populate
\* and then sequential_verify on a new test subject. rp.pc is the call the
\* run is at or in ("randomized_populate", "while", "sequential_verify"),
\* "done" after sequential_verify returned, or the exception that ended it.

\* The test subject: the TrimList or the adapter.
test_subject == IF subject = "TrimList" THEN tl ELSE ad

\* The test subject becomes self.
SetTestSubject(self) ==
    /\ tl' = IF subject = "TrimList" THEN self ELSE tl
    /\ cl' = IF subject = "TrimList" THEN cl ELSE self.impl
    /\ trimmed' = IF subject = "TrimList" THEN trimmed ELSE self.trimmed

\* randomized_populate up to its while loop: the asserts and the locals.
HStart ==
    /\ rp.pc = "randomized_populate"
    /\ LET initial_indexrange == TrimmableList_indexrange(subject, test_subject)
           items_to_add == bm.test_block_size * bm.blocks_to_add
           items_to_remove == bm.test_block_size * bm.blocks_to_remove
       IN  rp' = IF /\ TrimmableList_len(subject, test_subject) = 0
                    /\ initial_indexrange.start = 0
                    /\ initial_indexrange.stop = 0
                 THEN [pc |-> "while", added_count |-> 0, removed_count |-> 0,
                       can_add |-> (0 < items_to_add),
                       can_remove |-> (0 < items_to_remove)]
                 ELSE [rp EXCEPT !.pc = "AssertionError"]
    /\ UNCHANGED <<subject, bm, trims, tlvars, clvars, trimmed, last>>

\* One iteration of the while loop. An iteration in which neither draw
\* succeeds changes nothing but the progress output. The loop uses no
\* return value: the histories of its calls are bm.test_data and trims.
HIterate ==
    \E add_draw \in BOOLEAN, remove_draw \in BOOLEAN :
        /\ rp.pc = "while"
        /\ rp.can_add \/ rp.can_remove
        /\ \E it \in {randomized_populate_iteration(bm, subject, test_subject, rp,
                                                   add_draw, remove_draw)} :
               /\ SetTestSubject(it.self)
               /\ rp' = it.frame
               /\ trims' = trims \o it.trimmed
        /\ UNCHANGED <<subject, bm, last, tl_appended, tl_indices, tl_removed, cl_appended,
                       cl_indices, cl_written, cl_overflow, cl_puts, cl_reclaims>>

\* The while loop ends and randomized_populate returns.
HReturn ==
    /\ rp.pc = "while"
    /\ ~(rp.can_add \/ rp.can_remove)
    /\ rp' = [rp EXCEPT !.pc = "sequential_verify"]
    /\ UNCHANGED <<subject, bm, trims, tlvars, clvars, trimmed, last>>

\* sequential_verify
HVerify ==
    /\ rp.pc = "sequential_verify"
    /\ LET exc == sequential_verify(bm, subject, test_subject)
       IN  rp' = [rp EXCEPT !.pc = IF exc = "" THEN "done" ELSE exc]
    /\ UNCHANGED <<subject, bm, trims, tlvars, clvars, trimmed, last>>

InitHarness ==
    /\ subject \in {"TrimList", "ChunkListAdapter"}
    /\ Fresh
    /\ bm \in Benchmarks
    /\ rp = [pc |-> "randomized_populate", added_count |-> 0, removed_count |-> 0,
             can_add |-> FALSE, can_remove |-> FALSE]
    /\ trims = <<>>

NextHarness ==
    \/ HStart
    \/ HIterate
    \/ HReturn
    \/ HVerify

\* The run goes on while it can, and no draw fails forever: an iteration
\* that changes the locals (a successful draw changes a count) eventually
\* happens while one can.
SpecHarness ==
    /\ InitHarness
    /\ [][NextHarness]_vars
    /\ WF_rp(HStart)
    /\ WF_rp(HIterate)
    /\ WF_rp(HReturn)
    /\ WF_rp(HVerify)

\* ------------------------------------------------------------------ claims

\* The indices a range(start, stop) holds.
Range(r) == r.start..(r.stop - 1)

\* Indices read from a ChunkList: the probes and every index put.
ReadIdx == ProbeIdx \cup PutIdx \cup {0 - Capacity, Capacity + 1}

\* C1: index stability. On the TrimList under every interleaving of append,
\* pop_left and trim_before, and on the ChunkList, the i-th append call
\* (0-based, over the whole history) returned i; so no index is returned
\* twice, also after trims emptied the window.
C1_IndexStability ==
    /\ \A i \in 1..Len(tl_indices) : tl_indices[i] = i - 1
    /\ \A i \in 1..Len(cl_indices) : cl_indices[i] = i - 1

\* C1 witness: an append on a TrimList whose window two removals had emptied.
C1_Witness ==
    /\ last.obj = "tl" /\ last.op = "append"
    /\ tl_removed = 2 /\ Len(tl.data) = 1
    /\ last.ret = 2

\* C2: window invariant of TrimList. indexrange().start is the number of
\* elements removed so far, indexrange().stop the number of appends, and
\* start <= stop.
C2_WindowInvariant ==
    LET r == TrimList_indexrange(tl)
    IN  /\ r.start = tl_removed
        /\ r.stop = Len(tl_appended)
        /\ r.start <= r.stop

\* C2 witness: a trim_before beyond stop after a pop_left, with one element
\* removed by each.
C2_Witness ==
    /\ last.obj = "tl" /\ last.op = "trim_before"
    /\ last.arg > Len(tl_appended)
    /\ Len(last.ret) = 1
    /\ tl_removed = 2

\* C3 (as claimed): for the adapter, indexrange().start <= indexrange().stop
\* after any appends and trim_before(idx) with any idx >= 0.
C3_AdapterStartLeStop ==
    LET r == ChunkListAdapter_indexrange(ad)
    IN  r.start <= r.stop

\* C4 (as claimed): reading a TrimList at an index below start or at or
\* above stop returns None: it does not raise and returns no stored value.
C4_OutOfWindowRead ==
    LET r == TrimList_indexrange(tl)
    IN  \A idx \in ProbeIdx :
            (idx < r.start \/ idx >= r.stop)
                => TrimList_getitem(tl, idx) = [ret |-> None, exc |-> ""]

\* C5 (as claimed): a put or an append at an index >= 128^3 raises, and
\* changes the value get returns at no index.
C5_CapacityViolation ==
    [][ (/\ last'.obj = "cl"
         /\ \/ last'.op = "put" /\ last'.arg[1] >= Capacity
            \/ last'.op = "append" /\ last'.ret >= Capacity)
        => /\ last'.exc # ""
           /\ \A idx \in ReadIdx : ChunkList_get(cl', idx) = ChunkList_get(cl, idx)
      ]_vars

\* C6: read-after-write on TrimList. Every idx in indexrange() was returned
\* by an append call, and tl[idx] is the value passed to that call.
C6_ReadAfterWrite ==
    \A idx \in Range(TrimList_indexrange(tl)) :
        /\ \E i \in 1..Len(tl_indices) : tl_indices[i] = idx
        /\ \A i \in 1..Len(tl_indices) :
               tl_indices[i] = idx
                   => TrimList_getitem(tl, idx) = [ret |-> tl_appended[i], exc |-> ""]

\* C6 witness: a window of two different values behind a removed element.
C6_Witness ==
    /\ tl_removed >= 1
    /\ Len(tl.data) = 2
    /\ TrimList_getitem(tl, tl.pop_count).ret # TrimList_getitem(tl, tl.pop_count + 1).ret

\* The indices written so far.
WrittenIdx == {idx \in WriteIdx : cl_written[idx] # None}

\* C7: read-after-write on ChunkList within capacity. While every write had
\* its index in [0, 128^3): get(idx) is the item of the latest write at idx
\* for every idx in keyrange(); the chunks on the path of every written
\* index are allocated; and no other chunk is: beside the level-1 chunk and
\* the free list the heap holds one chunk per level-2 and per level-3 path
\* written to.
C7_ChunkReadAfterWrite ==
    ~cl_overflow =>
        /\ \A idx \in Range(ChunkList_keyrange(cl)) :
               ChunkList_get(cl, idx) = cl_written[idx]
        /\ \A idx \in WrittenIdx :
               LET c2 == cl.heap[cl.data][idx \div (ChunkList_CHUNKSIZE ^ 2)]
               IN  /\ c2 # None
                   /\ cl.heap[c2][(idx \div ChunkList_CHUNKSIZE) % ChunkList_CHUNKSIZE] # None
        /\ Len(cl.heap) =
               1 + Cardinality({idx \div (ChunkList_CHUNKSIZE ^ 2) : idx \in WrittenIdx})
                 + Cardinality({idx \div ChunkList_CHUNKSIZE : idx \in WrittenIdx})
                 + Len(cl.pool)

\* C7 witness: within capacity, index 1 was appended and then put with
\* another item, and a put at 128^3 - 1 allocated a second path.
C7_Witness ==
    /\ ~cl_overflow
    /\ cl.stop = 2
    /\ cl_written[1] # cl_appended[2]
    /\ cl_written[Capacity - 1] # None
    /\ Len(cl.heap) = 5

\* The list subscripts of get(idx) are in range: none raises IndexError.
SubscriptsInRange(idx) ==
    LET k == ChunkList_decompose(idx)
        slots == 0..(ChunkList_CHUNKSIZE - 1)
    IN  k.k1 \in slots /\ k.k2 \in slots /\ k.k3 \in slots

\* The level-2 or the level-3 chunk on the path of idx is unallocated.
Unallocated(idx) ==
    LET k == ChunkList_decompose(idx)
        c2 == cl.heap[cl.data][k.k1]
    IN  c2 = None \/ cl.heap[c2][k.k2] = None

\* C8: out-of-window read on the ChunkList path. ChunkList.get(idx) is None
\* for every idx outside [start, stop) and for every idx with an unallocated
\* chunk on its path, and its subscripts never raise; ChunkListAdapter[idx]
\* is None for every idx below the trim point or at or above stop.
C8_ChunkOutOfWindowRead ==
    /\ \A idx \in ReadIdx :
           /\ SubscriptsInRange(idx)
           /\ (idx < cl.start \/ idx >= cl.stop \/ Unallocated(idx))
                  => ChunkList_get(cl, idx) = None
    /\ \A idx \in ReadIdx :
           (idx < trimmed \/ idx >= ChunkListAdapter_indexrange(ad).stop)
               => ChunkListAdapter_getitem(ad, idx) = None

\* C8 witness: the adapter trimmed at 2 of 3 elements; index 1 is still
\* stored in the ChunkList and absent through the adapter.
C8_Witness ==
    /\ subject = "ChunkListAdapter"
    /\ trimmed = 2 /\ cl.stop = 3
    /\ ChunkList_get(cl, 1) # None
    /\ ChunkListAdapter_getitem(ad, 1) = None

\* C9: TrimList.trim_before(idx) removes n = min(length, max(0, idx - start))
\* elements from the front, returns them in ascending index order, advances
\* start by n, and leaves stop and every remaining index's value unchanged.
C9_TrimBefore ==
    [][ (last'.obj = "tl" /\ last'.op = "trim_before")
        => LET r == TrimList_indexrange(tl)
               n == min(Len(tl.data), max(0, last'.arg - r.start))
               rr == TrimList_indexrange(tl')
           IN  /\ last'.exc = ""
               /\ Len(last'.ret) = n
               /\ \A j \in 1..n : last'.ret[j] = TrimList_getitem(tl, r.start + j - 1).ret
               /\ \A j \in 1..n : last'.ret[j] = tl_appended[r.start + j]
               /\ rr.start = r.start + n
               /\ rr.stop = r.stop
               /\ \A idx \in Range(rr) :
                      TrimList_getitem(tl', idx) = TrimList_getitem(tl, idx)
      ]_vars

\* C9 witness: a trim_before returned two different values and left one
\* element.
C9_Witness ==
    /\ last.obj = "tl" /\ last.op = "trim_before"
    /\ Len(last.ret) = 2 /\ last.ret[1] # last.ret[2]
    /\ Len(tl.data) = 1

\* The window and the readable values of the subject, as its contract
\* shows them.
View(t, a) ==
    [tl_range |-> TrimList_indexrange(t),
     tl_items |-> [idx \in Range(TrimList_indexrange(t)) |-> TrimList_getitem(t, idx)],
     ad_range |-> ChunkListAdapter_indexrange(a),
     ad_items |-> [idx \in Range(ChunkListAdapter_indexrange(a)) |->
                       ChunkListAdapter_getitem(a, idx)]]

\* C10: trim idempotence. A trim_before(j) that directly follows a
\* trim_before(k) with j <= k leaves indexrange() and the readable values as
\* they were, on TrimList and on the adapter; on TrimList it, and any
\* trim_before(idx) with idx <= start, returns the empty list.
C10_TrimIdempotence ==
    [][ /\ (/\ last.op = "trim_before" /\ last'.op = "trim_before"
            /\ last'.arg <= last.arg)
           => /\ View(tl', ad') = View(tl, ad)
              /\ last'.obj = "tl" => last'.ret = <<>>
        /\ (/\ last'.obj = "tl" /\ last'.op = "trim_before"
            /\ last'.arg <= TrimList_indexrange(tl).start)
           => last'.ret = <<>> /\ View(tl', ad') = View(tl, ad)
      ]_vars

\* C10 witness: trim_before(1) on a TrimList whose start is 2 returned the
\* empty list and left a non-empty window.
C10_Witness ==
    /\ last.obj = "tl" /\ last.op = "trim_before"
    /\ last.arg = 1
    /\ TrimList_indexrange(tl).start = 2
    /\ last.ret = <<>>
    /\ Len(tl.data) = 1

\* C11: TrimList.pop_left. On an empty window it returns None, raises
\* nothing and leaves indexrange() as it was; on a non-empty window it
\* returns the element at index start and advances start by 1, stop
\* unchanged.
C11_PopLeft ==
    [][ (last'.obj = "tl" /\ last'.op = "pop_left")
        => LET r == TrimList_indexrange(tl)
               rr == TrimList_indexrange(tl')
           IN  /\ last'.exc = ""
               /\ IF r.start = r.stop
                  THEN last'.ret = None /\ rr = r
                  ELSE /\ last'.ret = TrimList_getitem(tl, r.start).ret
                       /\ last'.ret = tl_appended[r.start + 1]
                       /\ rr.start = r.start + 1
                       /\ rr.stop = r.stop
      ]_vars

\* C11 witness: pop_left returned None on a window that removals had
\* emptied.
C11_Witness ==
    /\ last.obj = "tl" /\ last.op = "pop_left"
    /\ last.ret = None
    /\ tl_removed = 2 /\ Len(tl_appended) = 2

\* C12 (as claimed): len(x) = indexrange().stop - indexrange().start, on
\* TrimList and on the adapter.
C12_LenIsWindow ==
    LET r == TrimList_indexrange(tl)
        a == ChunkListAdapter_indexrange(ad)
    IN  /\ TrimList_len(tl) = r.stop - r.start
        /\ ChunkListAdapter_len(ad) = a.stop - a.start

\* C12 (amended): len(x) = indexrange().stop, on TrimList and on the
\* adapter; it is stop - start exactly while start is 0.
C12_LenIsStop ==
    LET r == TrimList_indexrange(tl)
        a == ChunkListAdapter_indexrange(ad)
    IN  /\ TrimList_len(tl) = r.stop
        /\ ChunkListAdapter_len(ad) = a.stop
        /\ (TrimList_len(tl) = r.stop - r.start) <=> (r.start = 0)
        /\ (ChunkListAdapter_len(ad) = a.stop - a.start) <=> (a.start = 0)

\* C12 witness: a TrimList of 3 appends and 1 removal: len is 3, the
\* window holds 2.
C12_Witness ==
    /\ TrimList_len(tl) = 3
    /\ TrimList_indexrange(tl) = [start |-> 1, stop |-> 3]

\* C13 (as claimed): the i-th append on the adapter returns i.
C13_AdapterAppendReturnsIndex ==
    (last.obj = "ad" /\ last.op = "append")
        => /\ last.ret = Len(cl_appended) - 1
           /\ last.ret = cl_indices[Len(cl_indices)]

\* C16: len(x) counts appends. On TrimList and on the adapter len(x) is 0
\* on a fresh object and the number of appends made ever after, whatever
\* was trimmed.
C16_LenCountsAppends ==
    /\ TrimList_len(tl) = Len(tl_appended)
    /\ ChunkListAdapter_len(ad) = Len(cl_appended)

\* C16 witness: an adapter of 3 appends trimmed before 2.
C16_Witness ==
    /\ subject = "ChunkListAdapter"
    /\ ChunkListAdapter_indexrange(ad) = [start |-> 2, stop |-> 3]
    /\ ChunkListAdapter_len(ad) = 3

\* C20: ChunkList.put never moves the window. A put leaves keyrange() as it
\* was, and an item put at an index >= stop is not readable; an append
\* advances stop by 1, returns the old stop and makes its own item readable
\* there, whatever was put there before; no call but append changes stop and
\* none changes start.
C20_PutKeepsWindow ==
    [][ /\ (last'.obj = "cl" /\ last'.op = "put")
           => /\ ChunkList_keyrange(cl') = ChunkList_keyrange(cl)
              /\ last'.arg[1] >= cl.stop => ChunkList_get(cl', last'.arg[1]) = None
        /\ (last'.obj = "cl" /\ last'.op = "append")
           => /\ cl'.stop = cl.stop + 1
              /\ last'.ret = cl.stop
              /\ ChunkList_get(cl', last'.ret) = last'.arg
        /\ cl'.start = cl.start
        /\ cl'.stop # cl.stop => last'.op = "append"
      ]_vars

\* C20 witness: the append that returned 1 came after a put at index 1 (the
\* one put of the run, on the path of index 0, within capacity).
C20_Witness ==
    /\ last.obj = "cl" /\ last.op = "append" /\ last.ret = 1
    /\ cl_puts = 1 /\ ~cl_overflow
    /\ cl_written[ChunkList_CHUNKSIZE] = None
    /\ Len(cl.heap) = 3

\* Bounds of the selectors given to enumerate.
SelBounds == ((0 - 2)..(MaxAppends + 1))

\* The step-1 selectors: None, ranges, and slices whose bounds are None or
\* not negative.
ContiguousSelectors ==
    {NoSelector}
    \cup {RangeSel(a, b, 1) : a \in SelBounds, b \in SelBounds}
    \cup {SliceSel(a, b, c) :
              a \in {<<>>} \cup {<<n>> : n \in 0..MaxAppends},
              b \in {<<>>} \cup {<<n>> : n \in 0..MaxAppends},
              c \in {<<>>, <<1>>}}

\* The other iterables of integers: lists, and ranges of another step.
OtherSelectors ==
    {ListSel(items) : items \in {<<>>, <<1>>, <<2, 0>>, <<0, 5, 0 - 1, 0>>, <<1, 1, 3>>}}
    \cup {RangeSel(a, b, c) : a \in {0, 2}, b \in {0 - 1, 3}, c \in {0 - 1, 2}}

\* The integers a step-1 selector selects: all of the window for None, the
\* elements of a range, and for a slice those from its start (or the
\* window's) up to its stop (or the window's).
Selected(self, sel) ==
    IF sel.kind = "None" THEN self.start..(self.stop - 1)
    ELSE (IF sel.start = <<>> THEN self.start ELSE sel.start[1])
         ..((IF sel.stop = <<>> THEN self.stop ELSE sel.stop[1]) - 1)

\* The pairs (idx, get(idx)) of the integers lo..hi, ascending.
RECURSIVE Pairs(_, _, _)
Pairs(self, lo, hi) ==
    IF lo > hi THEN <<>>
    ELSE << <<lo, ChunkList_get(self, lo)>> >> \o Pairs(self, lo + 1, hi)

\* The pairs (idx, get(idx)) of the items inside the window, in order.
RECURSIVE PairsOf(_, _)
PairsOf(self, items) ==
    IF items = <<>> THEN <<>>
    ELSE (IF self.start <= Head(items) /\ Head(items) < self.stop
          THEN << <<Head(items), ChunkList_get(self, Head(items))>> >>
          ELSE <<>>)
         \o PairsOf(self, Tail(items))

\* C18 (as claimed): for a step-1 range or slice, or None, enumerate yields
\* (idx, get(idx)) ascending for exactly the indices the selector and the
\* window have in common, nothing when there is none; for another iterable
\* it yields (idx, get(idx)) for exactly the selector's indices inside the
\* window, in the selector's order.
C18_Enumerate ==
    /\ \A sel \in ContiguousSelectors :
           LET common == Selected(cl, sel) \cap (cl.start..(cl.stop - 1))
               lo == CHOOSE i \in common : \A j \in common : i <= j
               hi == CHOOSE i \in common : \A j \in common : i >= j
           IN  ChunkList_enumerate(cl, sel) =
                   [ret |-> IF common = {} THEN <<>> ELSE Pairs(cl, lo, hi),
                    exc |-> ""]
    /\ \A sel \in OtherSelectors :
           ChunkList_enumerate(cl, sel) =
               [ret |-> PairsOf(cl, IF sel.kind = "list" THEN sel.items
                                    ELSE range_items(sel.start[1], sel.stop[1],
                                                     sel.step[1])),
                exc |-> ""]

\* A chunk as _pool_getnew makes it: 128 slots of None.
AllNone == [idx \in 0..(ChunkList_CHUNKSIZE - 1) |-> None]

\* C17: pool hygiene. A _pool_reclaim that returns has put its list, all
\* slots None, at the end of the free list; every list in the free list is
\* 128 slots of None; and _pool_get returns 128 slots of None: the last
\* list of a non-empty free list, which shrinks by one, or else a new list.
C17_PoolHygiene ==
    /\ (last.op = "_pool_reclaim" /\ last.exc = "")
           => /\ cl.pool # <<>>
              /\ cl.pool[Len(cl.pool)] = Len(cl.heap)
              /\ cl.heap[Len(cl.heap)] = AllNone
    /\ (last.op = "_pool_reclaim" /\ last.exc # "")
           => last.arg # ChunkList_CHUNKSIZE
    /\ \A i \in 1..Len(cl.pool) : cl.heap[cl.pool[i]] = AllNone
    /\ LET got == ChunkList_pool_get(cl)
       IN  /\ got.exc = ""
           /\ got.self.heap[got.ret] = AllNone
           /\ IF cl.pool # <<>>
              THEN /\ got.ret = cl.pool[Len(cl.pool)]
                   /\ got.self.pool = SubSeq(cl.pool, 1, Len(cl.pool) - 1)
                   /\ got.self.heap = cl.heap
              ELSE /\ got.self.pool = <<>>
                   /\ got.ret = Len(cl.heap) + 1

\* C17 witness: three lists were reclaimed and an append reacquired the
\* last two as its level-2 and level-3 chunk, leaving the first in the free
\* list: the heap holds no other chunk.
C17_Witness ==
    /\ cl_reclaims = 3
    /\ cl.pool = <<2>>
    /\ last.op = "append" /\ last.ret = 0
    /\ cl.heap[cl.data][0] = 4
    /\ cl.heap[4][0] = 3
    /\ Len(cl.heap) = 4

\* C15: interchangeability. A TrimList and a ChunkListAdapter given the same
\* append(v) and trim_before(k) calls, 0 <= k <= number appended, report in
\* every state the same indexrange().start and .stop, and x[i] returns the
\* same value from both for every i in that range.
C15_Interchangeable ==
    /\ TrimList_indexrange(tl).start = ChunkListAdapter_indexrange(ad).start
    /\ TrimList_indexrange(tl).stop = ChunkListAdapter_indexrange(ad).stop
    /\ \A i \in Range(TrimList_indexrange(tl)) :
           /\ TrimList_getitem(tl, i).exc = ""
           /\ TrimList_getitem(tl, i).ret = ChunkListAdapter_getitem(ad, i)

\* C15 witness: both lists hold one of three elements after trim_before(2),
\* and the latest call was a trim_before(1) that neither moved back for.
C15_Witness ==
    /\ subject = "Pair"
    /\ Len(tl_appended) = 3
    /\ last.op = "trim_before" /\ last.arg = 1
    /\ TrimList_indexrange(tl) = [start |-> 2, stop |-> 3]
    /\ ChunkListAdapter_indexrange(ad) = [start |-> 2, stop |-> 3]
    /\ TrimList_getitem(tl, 2).ret = tl_appended[3]

\* The benchmark's number of items to add and to remove.
items_to_add == bm.test_block_size * bm.blocks_to_add
items_to_remove == bm.test_block_size * bm.blocks_to_remove

\* C14: Scenario C. On a TrimList and on a ChunkListAdapter, after any
\* interleaving of the appends and of trim_before(1), ..., trim_before(R)
\* that randomized_populate makes, indexrange() is [removed_count,
\* added_count) and x[idx] is the value given to the idx-th append for every
\* idx in it; so after the loop indexrange() is [R, A), and
\* sequential_verify returns without an exception.
C14_ScenarioC ==
    /\ rp.pc \in {"randomized_populate", "while", "sequential_verify", "done"}
    /\ rp.pc # "randomized_populate" =>
           /\ TrimmableList_indexrange(subject, test_subject) =
                  [start |-> rp.removed_count, stop |-> rp.added_count]
           /\ \A idx \in rp.removed_count..(rp.added_count - 1) :
                  TrimmableList_getitem(subject, test_subject, idx) =
                      [ret |-> bm.test_data[idx], exc |-> ""]
    /\ rp.pc \in {"sequential_verify", "done"} =>
           /\ items_to_remove < items_to_add
           /\ TrimmableList_indexrange(subject, test_subject) =
                  [start |-> items_to_remove, stop |-> items_to_add]

\* C14 witness: sequential_verify returned on a TrimList of 4 appends and 2
\* trims, the items left differ, and the first trim came after the third
\* append and the second after the fourth.
C14_Witness ==
    /\ subject = "TrimList"
    /\ rp.pc = "done"
    /\ items_to_add = 4 /\ items_to_remove = 2
    /\ bm.test_data[2] # bm.test_data[3]
    /\ trims = <<[idx |-> 1, added_count |-> 3], [idx |-> 2, added_count |-> 4]>>

\* C19: randomized_populate terminates correctly. When no draw fails
\* forever the loop exits and randomized_populate returns; at every step
\* removed_count <= added_count, and every trim_before argument is one more
\* than the previous one (the first is 1) and at most added_count at its
\* call; after the loop added_count = items_to_add and removed_count =
\* items_to_remove.
C19_PopulateTerminates ==
    /\ <>(rp.pc = "sequential_verify")
    /\ [](/\ 0 < items_to_remove /\ items_to_remove < items_to_add
          /\ rp.removed_count <= rp.added_count
          /\ Len(trims) = rp.removed_count
          /\ \A i \in 1..Len(trims) :
                 /\ trims[i].idx = i
                 /\ trims[i].idx <= trims[i].added_count
          /\ rp.pc \in {"sequential_verify", "done"} =>
                 /\ ~rp.can_add /\ ~rp.can_remove
                 /\ rp.added_count = items_to_add
                 /\ rp.removed_count = items_to_remove)

\* C19 witness: the loop ended on a ChunkListAdapter after 4 appends and 3
\* trims, each trim made in the iteration of the append it removes.
C19_Witness ==
    /\ subject = "ChunkListAdapter"
    /\ rp.pc = "sequential_verify"
    /\ rp.added_count = 4 /\ rp.removed_count = 3
    /\ \A i \in 1..3 : trims[i] = [idx |-> i, added_count |-> i]

====
